---- MODULE Spec2Model ----
(***************************************************************************)
(* Model of the Cloud Monitoring exporter of export/export.go: the Export  *)
(* enqueue path, the shard queues, the drain/batch loop of Exporter.Run    *)
(* and the asynchronous send tasks it starts (Spec, FairSpec and           *)
(* ExportFairSpec); the construction of an exporter and the package        *)
(* variable globalExporter (LifecycleSpec); and                            *)
(* UpsertValidatingWebhookConfig of pkg/operator/webhook.go (WebhookSpec).  *)
(*                                                                         *)
(* The three sizes of the source are kept under their names but scaled     *)
(* down so that the state space is finite and small: shardCount (512 in    *)
(* the source), shardBufferSize (2048) and batchSizeMax (200).             *)
(***************************************************************************)
EXTENDS Integers, Sequences, FiniteSets, TLC

\* Number of shards by which series are bucketed (export.go:90, scaled).
shardCount == 2
\* Buffer size of each shard queue (export.go:92, scaled).
shardBufferSize == 2
\* Maximum number of samples packed into one batch (export.go:95, scaled).
batchSizeMax == 2

\* Bounds of the model.
NumCallers == 2      \* concurrent callers of Export
MaxHash == 2         \* fingerprint hashes are 0..MaxHash
MaxSamples == 2      \* length of the samples slice of one Export call
MaxExports == 2      \* number of Export calls in one behaviour
MaxPoints == 3       \* number of enqueue attempts in one behaviour
MaxHostCalls == 4    \* number of calls of New, InitGlobal and Global
MaxUpserts == 3      \* number of calls of UpsertValidatingWebhookConfig

Callers == 1..NumCallers
Hashes == 0..MaxHash
ShardIds == 0..(shardCount - 1)

VARIABLES
    shards,              \* e.shards: index -> [queue, pending]
    nextc,               \* e.nextc: number of signals buffered (capacity 1)
    samplesExported, samplesDropped, samplesSent,
    sendIterations, shardProcess, shardProcessPending,
    callerPc, samples, hash,     \* Export callers: position, remaining input, current hash
    runPc,               \* position of Run
    timer,               \* the flush timer: "none", "armed", "fired", "stopped"
    batch, seen, closers,        \* locals of Run
    shardOffset, i, shard, startLen,
    capped,              \* the shard at which the last pass first filled the batch
                         \* and left entries queued, or NoCap
    sends,               \* the send goroutines started so far, in dispatch order
    cancelled,           \* ctx.Done() is closed
    accepted,            \* number of points accepted into a shard queue so far
    offers,              \* per shard: number of enqueue attempts so far
    exportCalls,         \* number of Export calls so far
    globalExporter,      \* the package variable globalExporter: Nil or an exporter
    registered,          \* the host's registry holds the six counters
    newResult,           \* outcome of the last call of New or InitGlobal
    globalResult,        \* outcome of the last call of Global
    initOk,              \* some InitGlobal has returned without an error
    hostPc,              \* "running", or "panicked" after a panic of the host
    hostCalls,           \* number of calls of New, InitGlobal and Global so far
    hookPc,              \* position of UpsertValidatingWebhookConfig
    hookIn,              \* its argument in
    hookOut,             \* its local variable out
    hookCalls,           \* the calls it made on api, with their outcomes
    hookResult,          \* what it returned
    apiStore,            \* the objects held behind api, by name
    upserts              \* number of calls of UpsertValidatingWebhookConfig so far

counters == <<samplesExported, samplesDropped, samplesSent,
              sendIterations, shardProcess, shardProcessPending>>
callerVars == <<callerPc, samples, hash, exportCalls>>
runVars == <<runPc, batch, seen, closers, shardOffset, i, shard, startLen,
             capped>>
lifeVars == <<globalExporter, registered, newResult, globalResult, initOk,
              hostPc, hostCalls>>
hookVars == <<hookPc, hookIn, hookOut, hookCalls, hookResult, apiStore,
              upserts>>
coreVars == <<shards, nextc, counters, callerVars, runVars, timer, sends,
              cancelled, accepted, offers>>
vars == <<coreVars, lifeVars, hookVars>>

\* The names of the argument in of UpsertValidatingWebhookConfig.
HookNames == {"", "cfg1", "cfg2"}

\* The nil error.
NoErr == "nil"
\* The nil *Exporter.
NilExporter == [nil |-> TRUE]
\* No call has been made yet.
NoCall == [call |-> "none"]

\* No visit of the last pass ended on a full batch with entries left queued.
NoCap == -1

\* The value of the local variable shard outside a visit.  The local variable
\* is a new one in every iteration of the loop over the shards: visit tells
\* the copies apart (the number of the iteration, 0 outside a visit).
NoShard == [index |-> 0, pending |-> FALSE, visit |-> 0]

\* newShard: an empty queue, pending is the zero value.
newShard == [queue |-> <<>>, pending |-> FALSE]

\* New: the state of a freshly constructed exporter, before Run is started.
Init ==
    /\ shards = [s \in ShardIds |-> newShard]
    /\ nextc = 0
    /\ samplesExported = 0 /\ samplesDropped = 0 /\ samplesSent = 0
    /\ sendIterations = 0 /\ shardProcess = 0 /\ shardProcessPending = 0
    /\ callerPc = [c \in Callers |-> "idle"]
    /\ samples = [c \in Callers |-> 0]
    /\ hash = [c \in Callers |-> 0]
    /\ exportCalls = 0
    /\ runPc = "init"
    /\ timer = "none"
    /\ batch = <<>> /\ seen = {} /\ closers = <<>>
    /\ shardOffset = 0 /\ i = 0 /\ shard = NoShard /\ startLen = 0
    /\ capped = NoCap
    /\ sends = <<>>
    /\ cancelled = FALSE
    /\ accepted = 0
    /\ offers = [s \in ShardIds |-> 0]
    /\ globalExporter = NilExporter
    /\ registered = FALSE
    /\ newResult = NoCall
    /\ globalResult = NoCall
    /\ initOk = FALSE
    /\ hostPc = "running"
    /\ hostCalls = 0
    /\ hookPc = "idle"
    /\ hookIn = NoCall
    /\ hookOut = NoCall
    /\ hookCalls = <<>>
    /\ hookResult = NoCall
    /\ apiStore = [n \in HookNames |-> [nil |-> TRUE]]
    /\ upserts = 0

----------------------------------------------------------------------------
(* The Export path.                                                        *)

\* A wrong bucketing: the quotient of the hash is used instead of the hash.
ShardIndexQuotient(h) == (h \div shardCount) % shardCount

\* Exporter.enqueue: the index of the shard that receives a hash.
ShardIndex(h) == h % shardCount

\* A wrong channel: the wake channel buffers every signal.
triggerNextUncapped(n) == n + 1

\* Exporter.triggerNext: a non-blocking send on the capacity-1 channel.
triggerNext(n) == IF n < 1 THEN n + 1 ELSE n

\* A caller enters Export with a slice of n samples.
ExportCall(c) ==
    /\ callerPc[c] = "idle"
    /\ exportCalls < MaxExports
    /\ \E n \in 0..MaxSamples :
        samples' = [samples EXCEPT ![c] = n]
    /\ callerPc' = [callerPc EXCEPT ![c] = "loop"]
    /\ exportCalls' = exportCalls + 1
    /\ UNCHANGED <<shards, nextc, counters, hash, runVars, timer, sends,
                   cancelled, accepted, offers>>
    /\ UNCHANGED <<lifeVars, hookVars>>

\* A wrong count: the attempt is not counted.
ExportedIncMissing(n) == n

\* samplesExported.Inc() at the head of shard.enqueue.
ExportedInc(n) == n + 1

\* One iteration of the loop of Export: builder.next consumes one or more
\* leading samples and emits a point with a hash, or none.  An emitted point
\* is passed to Exporter.enqueue and shard.enqueue, which first counts the
\* attempt.  If builder.next returns an error Export panics ("panicked");
\* the slice of the call is then dead and is written as empty.
ExportNext(c) ==
    /\ callerPc[c] = "loop"
    /\ samples[c] > 0
    /\ \/ \E k \in 1..samples[c] :
            /\ samples' = [samples EXCEPT ![c] = samples[c] - k]
            /\ \/ /\ callerPc' = callerPc
                  /\ hash' = hash
                  /\ samplesExported' = samplesExported
               \/ /\ samplesExported < MaxPoints
                  /\ \E h \in Hashes : hash' = [hash EXCEPT ![c] = h]
                  /\ samplesExported' = ExportedInc(samplesExported)
                  /\ callerPc' = [callerPc EXCEPT ![c] = "offer"]
       \/ /\ callerPc' = [callerPc EXCEPT ![c] = "panicked"]
          /\ samples' = [samples EXCEPT ![c] = 0]
          /\ UNCHANGED <<hash, samplesExported>>
    /\ UNCHANGED <<shards, nextc, samplesDropped, samplesSent, sendIterations,
                   shardProcess, shardProcessPending, exportCalls, runVars, timer,
                   sends, cancelled, accepted, offers>>
    /\ UNCHANGED <<lifeVars, hookVars>>

\* The queue entry built for an accepted point.  The sample is identified by
\* its rank among the accepted points.
queueEntry(h, n) == [hash |-> h, sample |-> n]

\* A wrong capacity test: the buffer takes one entry more than its size.
QueueHasRoomOffByOne(q) == Len(q) <= shardBufferSize

\* A send on the shard's buffered channel succeeds while the buffer has room.
QueueHasRoom(q) == Len(q) < shardBufferSize

\* The rest of shard.enqueue: the non-blocking send on the shard's queue.
ShardEnqueueOffer(c) ==
    /\ callerPc[c] = "offer"
    /\ LET idx == ShardIndex(hash[c]) IN
        /\ offers' = [offers EXCEPT ![idx] = @ + 1]
        /\ IF QueueHasRoom(shards[idx].queue)
           THEN /\ shards' = [shards EXCEPT ![idx].queue =
                                Append(@, queueEntry(hash[c], accepted + 1))]
                /\ accepted' = accepted + 1
                /\ samplesDropped' = samplesDropped
           ELSE /\ samplesDropped' = samplesDropped + 1
                /\ UNCHANGED <<shards, accepted>>
    /\ callerPc' = [callerPc EXCEPT ![c] = "loop"]
    /\ hash' = [hash EXCEPT ![c] = 0]
    /\ UNCHANGED <<nextc, samplesExported, samplesSent, sendIterations,
                   shardProcess, shardProcessPending, samples, exportCalls,
                   runVars, timer, sends, cancelled>>
    /\ UNCHANGED <<lifeVars, hookVars>>

\* A wrong signal: a blocking send on the wake channel, without the default
\* case.
ExportTriggerBlocking(c) ==
    /\ callerPc[c] = "loop"
    /\ samples[c] = 0
    /\ nextc = 0
    /\ nextc' = 1
    /\ callerPc' = [callerPc EXCEPT ![c] = "idle"]
    /\ UNCHANGED <<shards, counters, samples, hash, exportCalls, runVars, timer,
                   sends, cancelled, accepted, offers>>
    /\ UNCHANGED <<lifeVars, hookVars>>

\* A wrong end of Export: the drainer is signalled and the call returns while
\* the last point has not been offered to its shard.
ExportTriggerBeforeOffer(c) ==
    /\ callerPc[c] \in {"loop", "offer"}
    /\ samples[c] = 0
    /\ nextc' = triggerNext(nextc)
    /\ callerPc' = [callerPc EXCEPT ![c] = "idle"]
    /\ UNCHANGED <<shards, counters, samples, hash, exportCalls, runVars, timer,
                   sends, cancelled, accepted, offers>>
    /\ UNCHANGED <<lifeVars, hookVars>>

\* The end of Export: the samples are consumed, the drainer is signalled.
ExportTrigger(c) ==
    /\ callerPc[c] = "loop"
    /\ samples[c] = 0
    /\ nextc' = triggerNext(nextc)
    /\ callerPc' = [callerPc EXCEPT ![c] = "idle"]
    /\ UNCHANGED <<shards, counters, samples, hash, exportCalls, runVars, timer,
                   sends, cancelled, accepted, offers>>
    /\ UNCHANGED <<lifeVars, hookVars>>

----------------------------------------------------------------------------
(* Exporter.Run: the drainer.                                              *)

\* The goroutine started by send(): it holds the batch and the closers by
\* value.  pc is "spawned" until CreateTimeSeries is called, "called" while
\* the call is outstanding and "done" when the goroutine has finished.
SendTask(b, cl) == [batch |-> b, closers |-> cl, pc |-> "spawned", err |-> FALSE]

\* The head of Run: the metric client is created (or Run returns the error:
\* "failed") and the flush timer is started.
RunStart ==
    /\ runPc = "init"
    /\ \E ok \in BOOLEAN :
        IF ok THEN runPc' = "select" /\ timer' = "armed"
              ELSE runPc' = "failed" /\ timer' = timer
    /\ UNCHANGED <<shards, nextc, counters, callerVars, batch, seen, closers,
                   shardOffset, i, shard, startLen, capped, sends, cancelled,
                   accepted, offers>>
    /\ UNCHANGED <<lifeVars, hookVars>>

\* batchDelayMax elapses: the timer puts a value on timer.C.
TimerExpire ==
    /\ timer = "armed"
    /\ timer' = "fired"
    /\ UNCHANGED <<shards, nextc, counters, callerVars, runVars, sends,
                   cancelled, accepted, offers>>
    /\ UNCHANGED <<lifeVars, hookVars>>

\* The owner of ctx cancels it.
Cancel ==
    /\ ~cancelled
    /\ cancelled' = TRUE
    /\ UNCHANGED <<shards, nextc, counters, callerVars, runVars, timer, sends,
                   accepted, offers>>
    /\ UNCHANGED <<lifeVars, hookVars>>

\* A wrong shutdown: Run waits for the send goroutines before it returns.
RunDoneWaits ==
    /\ runPc = "select"
    /\ cancelled
    /\ \A k \in DOMAIN sends : sends[k].pc = "done"
    /\ runPc' = "returned"
    /\ timer' = "stopped"
    /\ UNCHANGED <<shards, nextc, counters, callerVars, batch, seen, closers,
                   shardOffset, i, shard, startLen, capped, sends, cancelled,
                   accepted, offers>>
    /\ UNCHANGED <<lifeVars, hookVars>>

\* case <-ctx.Done(): Run returns nil ("returned"), the deferred stopTimer
\* runs.
RunDone ==
    /\ runPc = "select"
    /\ cancelled
    /\ runPc' = "returned"
    /\ timer' = "stopped"
    /\ UNCHANGED <<shards, nextc, counters, callerVars, batch, seen, closers,
                   shardOffset, i, shard, startLen, capped, sends, cancelled,
                   accepted, offers>>
    /\ UNCHANGED <<lifeVars, hookVars>>

\* case <-e.nextc: a drain pass begins.
RunWake ==
    /\ runPc = "select"
    /\ nextc = 1
    /\ nextc' = 0
    /\ sendIterations' = sendIterations + 1
    /\ i' = 0
    /\ capped' = NoCap
    /\ runPc' = "walk"
    /\ UNCHANGED <<shards, samplesExported, samplesDropped, samplesSent,
                   shardProcess, shardProcessPending, callerVars, batch, seen,
                   closers, shardOffset, shard, startLen, timer, sends, cancelled,
                   accepted, offers>>
    /\ UNCHANGED <<lifeVars, hookVars>>

\* A wrong reset: the hashes of the batch just sent stay in seen.
SeenKept(s) == s

\* for k := range seen { delete(seen, k) } in send().
SeenReset(s) == {}

\* A wrong reset: the release list just handed to a send task is kept.
ClosersKept(cl) == cl

\* closers = make([]func(), 0, shardCount) in send().
ClosersReset(cl) == <<>>

\* A wrong timer case: an empty batch leaves the timer expired.
RunTimerNoRearm ==
    /\ runPc = "select"
    /\ timer = "fired"
    /\ IF Len(batch) > 0
       THEN /\ sends' = Append(sends, SendTask(batch, closers))
            /\ batch' = <<>> /\ seen' = SeenReset(seen)
            /\ closers' = ClosersReset(closers)
            /\ timer' = "armed"
       ELSE /\ timer' = "expired"
            /\ UNCHANGED <<sends, batch, seen, closers>>
    /\ UNCHANGED <<shards, nextc, counters, callerVars, runPc, shardOffset, i,
                   shard, startLen, capped, cancelled, accepted, offers>>
    /\ UNCHANGED <<lifeVars, hookVars>>

\* A wrong timer case: the timer is rearmed and the batch is not sent.
RunTimerRearmOnly ==
    /\ runPc = "select"
    /\ timer = "fired"
    /\ timer' = "armed"
    /\ UNCHANGED <<shards, nextc, counters, callerVars, runVars, sends,
                   cancelled, accepted, offers>>
    /\ UNCHANGED <<lifeVars, hookVars>>

\* case <-timer.C: a batch that has been accumulating for too long is sent,
\* an empty one rearms the timer.  send() resets the timer as well.
RunTimer ==
    /\ runPc = "select"
    /\ timer = "fired"
    /\ timer' = "armed"
    /\ IF Len(batch) > 0
       THEN /\ sends' = Append(sends, SendTask(batch, closers))
            /\ batch' = <<>> /\ seen' = SeenReset(seen)
            /\ closers' = ClosersReset(closers)
       ELSE UNCHANGED <<sends, batch, seen, closers>>
    /\ UNCHANGED <<shards, nextc, counters, callerVars, runPc, shardOffset, i,
                   shard, startLen, capped, cancelled, accepted, offers>>
    /\ UNCHANGED <<lifeVars, hookVars>>

\* The head of the loop over the shards: the shard struct is copied into the
\* local variable shard; a pending shard is skipped.
RunShardBegin ==
    /\ runPc = "walk"
    /\ i < shardCount
    /\ shardProcess' = shardProcess + 1
    /\ LET index == (i + shardOffset) % shardCount IN
        IF shards[index].pending
        THEN /\ shardProcessPending' = shardProcessPending + 1
             /\ i' = i + 1
             /\ UNCHANGED <<runPc, shard, startLen>>
        ELSE /\ shard' = [index |-> index, pending |-> shards[index].pending,
                          visit |-> shardProcess + 1]
             /\ startLen' = Len(batch)
             /\ runPc' = "pull"
             /\ UNCHANGED <<shardProcessPending, i>>
    /\ UNCHANGED <<shards, nextc, samplesExported, samplesDropped, samplesSent,
                   sendIterations, callerVars, batch, seen, closers, shardOffset,
                   capped, timer, sends, cancelled, accepted, offers>>
    /\ UNCHANGED <<lifeVars, hookVars>>

\* A wrong loop condition: the batch takes one point more than its cap.
BatchHasRoomOffByOne(b) == Len(b) <= batchSizeMax

\* The condition of the inner loop: len(batch) < cap(batch).
BatchHasRoom(b) == Len(b) < batchSizeMax

\* A wrong test: a series already in the batch is not detected.
IsDuplicateNever(h, s) == FALSE

\* The test made before a point is appended: is its series in the batch?
IsDuplicate(h, s) == h \in s

\* A wrong get: the entry is read and left in the queue.
DequeuePeek(q) == q

\* shard.get: the oldest entry leaves the queue.
Dequeue(q) == Tail(q)

\* A wrong inner loop: a point whose series is in the batch makes the batch
\* go out and is then dropped.
RunPullDropsDuplicate ==
    /\ runPc = "pull"
    /\ BatchHasRoom(batch)
    /\ shards[shard.index].queue # <<>>
    /\ LET e == Head(shards[shard.index].queue)
           dup == IsDuplicate(e.hash, seen)
       IN
        /\ shards' = [shards EXCEPT ![shard.index].queue = Dequeue(@)]
        /\ sends' = IF dup THEN Append(sends, SendTask(batch, closers)) ELSE sends
        /\ timer' = IF dup THEN "armed" ELSE timer
        /\ closers' = IF dup THEN ClosersReset(closers) ELSE closers
        /\ seen' = IF dup THEN SeenReset(seen) ELSE seen \cup {e.hash}
        /\ batch' = IF dup THEN <<>> ELSE Append(batch, e)
    /\ UNCHANGED <<nextc, counters, callerVars, runPc, shardOffset, i, shard,
                   startLen, capped, cancelled, accepted, offers>>
    /\ UNCHANGED <<lifeVars, hookVars>>

\* One iteration of the inner loop: the oldest entry of the shard's queue is
\* taken; if its series is already in the batch the batch is sent first.
RunPull ==
    /\ runPc = "pull"
    /\ BatchHasRoom(batch)
    /\ shards[shard.index].queue # <<>>
    /\ LET e == Head(shards[shard.index].queue)
           dup == IsDuplicate(e.hash, seen)
       IN
        /\ shards' = [shards EXCEPT ![shard.index].queue = Dequeue(@)]
        /\ sends' = IF dup THEN Append(sends, SendTask(batch, closers)) ELSE sends
        /\ timer' = IF dup THEN "armed" ELSE timer
        /\ closers' = IF dup THEN ClosersReset(closers) ELSE closers
        /\ seen' = (IF dup THEN SeenReset(seen) ELSE seen) \cup {e.hash}
        /\ batch' = Append(IF dup THEN <<>> ELSE batch, e)
    /\ UNCHANGED <<nextc, counters, callerVars, runPc, shardOffset, i, shard,
                   startLen, capped, cancelled, accepted, offers>>
    /\ UNCHANGED <<lifeVars, hookVars>>

\* The end of a visit: the batch is full or the shard is empty.  The local
\* copy of the shard is marked pending and a closure over it is appended to
\* closers; a full batch is sent.
RunShardEnd ==
    /\ runPc = "pull"
    /\ ~(BatchHasRoom(batch) /\ shards[shard.index].queue # <<>>)
    /\ LET grew == Len(batch) > startLen
           closers1 == IF grew
                       THEN Append(closers, [shard EXCEPT !.pending = TRUE])
                       ELSE closers
           full == Len(batch) = batchSizeMax
       IN
        /\ sends' = IF full THEN Append(sends, SendTask(batch, closers1)) ELSE sends
        /\ timer' = IF full THEN "armed" ELSE timer
        /\ closers' = IF full THEN ClosersReset(closers1) ELSE closers1
        /\ seen' = IF full THEN SeenReset(seen) ELSE seen
        /\ batch' = IF full THEN <<>> ELSE batch
        /\ capped' = IF capped = NoCap /\ full /\ shards[shard.index].queue # <<>>
                      THEN shard.index ELSE capped
    /\ i' = i + 1
    /\ shard' = NoShard
    /\ startLen' = 0
    /\ runPc' = "walk"
    /\ UNCHANGED <<shards, nextc, counters, callerVars, shardOffset, cancelled,
                   accepted, offers>>
    /\ UNCHANGED <<lifeVars, hookVars>>

\* After the loop over the shards: the wake signal is sent again if the pass
\* was not complete, and the offset advances by the number of shards visited.
RunPassEnd ==
    /\ runPc = "walk"
    /\ ~(i < shardCount)
    /\ nextc' = IF i < shardCount THEN triggerNext(nextc) ELSE nextc
    /\ shardOffset' = (shardOffset + i) % shardCount
    /\ i' = 0
    /\ runPc' = "select"
    /\ UNCHANGED <<shards, counters, callerVars, batch, seen, closers, shard,
                   startLen, capped, timer, sends, cancelled, accepted, offers>>
    /\ UNCHANGED <<lifeVars, hookVars>>

----------------------------------------------------------------------------
(* The send goroutines.                                                    *)

\* e.send: the goroutine calls CreateTimeSeries with its batch.
SendCall(k) ==
    /\ sends[k].pc = "spawned"
    /\ sends' = [sends EXCEPT ![k].pc = "called"]
    /\ UNCHANGED <<shards, nextc, counters, callerVars, runVars, timer,
                   cancelled, accepted, offers>>
    /\ UNCHANGED <<lifeVars, hookVars>>

\* A wrong count: only the batches of successful calls are counted.
SentAddOnSuccess(n, b, err) == IF err THEN n ELSE n + Len(b)

\* samplesSent.Add(float64(len(batch))), whatever e.send returned.
SentAdd(n, b, err) == n + Len(b)

\* A wrong closer: the flag is left as it is.
closeNoop(c) == c

\* The closure func() { shard.pending = false } over a copy of a shard.
close(c) == [c EXCEPT !.pending = FALSE]

\* The call returns, with an error or without: the batch is counted as sent
\* and the closers run.
SendDone(k) ==
    /\ sends[k].pc = "called"
    /\ \E err \in BOOLEAN :
        /\ sends' = [sends EXCEPT ![k].pc = "done", ![k].err = err,
                       ![k].closers = [j \in DOMAIN @ |-> close(@[j])]]
        /\ samplesSent' = SentAdd(samplesSent, sends[k].batch, err)
    /\ UNCHANGED <<shards, nextc, samplesExported, samplesDropped,
                   sendIterations, shardProcess, shardProcessPending, callerVars,
                   runVars, timer, cancelled, accepted, offers>>
    /\ UNCHANGED <<lifeVars, hookVars>>

----------------------------------------------------------------------------
Next ==
    \/ \E c \in Callers : ExportCall(c)
    \/ \E c \in Callers : ExportNext(c)
    \/ \E c \in Callers : ShardEnqueueOffer(c)
    \/ \E c \in Callers : ExportTrigger(c)
    \/ RunStart
    \/ TimerExpire
    \/ Cancel
    \/ RunDone
    \/ RunWake
    \/ RunTimer
    \/ RunShardBegin
    \/ RunPull
    \/ RunShardEnd
    \/ RunPassEnd
    \/ \E k \in DOMAIN sends : SendCall(k)
    \/ \E k \in DOMAIN sends : SendDone(k)

Spec == Init /\ [][Next]_vars

\* The drainer and the timer make progress: the goroutine of Run keeps being
\* scheduled, a select case that stays ready is eventually chosen, and an
\* armed timer expires.  Nothing is assumed of the callers of Export, of the
\* owner of the context or of the backend.
FairSpec ==
    /\ Spec
    /\ WF_vars(RunDone) /\ WF_vars(RunWake) /\ WF_vars(RunTimer)
    /\ WF_vars(RunShardBegin) /\ WF_vars(RunPull) /\ WF_vars(RunShardEnd)
    /\ WF_vars(RunPassEnd) /\ WF_vars(TimerExpire)

\* The goroutines that called Export keep being scheduled.  Nothing is
\* assumed of Run, of the timer or of the backend.
ExportFairSpec ==
    /\ Spec
    /\ \A c \in Callers :
        /\ WF_vars(ExportNext(c))
        /\ WF_vars(ShardEnqueueOffer(c))
        /\ WF_vars(ExportTrigger(c))

----------------------------------------------------------------------------
(* New, InitGlobal and Global: the construction of an exporter and the     *)
(* package variable globalExporter.                                        *)

\* The values of opts.ProjectID and of the argument reg that are tried: reg
\* is nil or the registry of the host.
ProjectIDs == {"", "p1", "p2"}
Registries == {"nil", "reg"}

\* A wrong test: an empty project ID is accepted.
ProjectIDMissingNever(id) == FALSE

\* if opts.ProjectID == "".
ProjectIDMissing(id) == id = ""

\* The struct built by New: the options, a wake channel of capacity 1 with
\* nothing in it, and shardCount shards made by newShard.
Exporter(opts) ==
    [nil |-> FALSE, opts |-> opts, nextc |-> 0,
     shards |-> [s \in ShardIds |-> newShard]]

\* New.  reg.MustRegister panics when reg holds the six counters already;
\* it runs before the project ID is looked at, so that the counters are
\* registered also when New returns the error.
New(reg, opts) ==
    IF reg # "nil" /\ registered
    THEN [panic |-> TRUE, e |-> NilExporter, err |-> NoErr, registered |-> TRUE]
    ELSE IF ProjectIDMissing(opts.ProjectID)
    THEN [panic |-> FALSE, e |-> NilExporter, err |-> "GCP project ID missing",
          registered |-> (registered \/ reg # "nil")]
    ELSE [panic |-> FALSE, e |-> Exporter(opts), err |-> NoErr,
          registered |-> (registered \/ reg # "nil")]

\* The host calls New itself.
CallNew(reg, opts) ==
    /\ hostPc = "running"
    /\ hostCalls < MaxHostCalls
    /\ LET r == New(reg, opts) IN
        /\ registered' = r.registered
        /\ newResult' = [call |-> "New", reg |-> reg, opts |-> opts,
                         was |-> registered, panic |-> r.panic, e |-> r.e,
                         err |-> r.err]
        /\ hostPc' = IF r.panic THEN "panicked" ELSE hostPc
    /\ hostCalls' = hostCalls + 1
    /\ UNCHANGED <<globalExporter, globalResult, initOk, coreVars, hookVars>>

\* InitGlobal: globalExporter, err = New(logger, reg, opts); return err.  The
\* assignment is made whatever New returns, and not made if New panics.
InitGlobal(reg, opts) ==
    /\ hostPc = "running"
    /\ hostCalls < MaxHostCalls
    /\ LET r == New(reg, opts) IN
        /\ registered' = r.registered
        /\ globalExporter' = IF r.panic THEN globalExporter ELSE r.e
        /\ newResult' = [call |-> "InitGlobal", reg |-> reg, opts |-> opts,
                         was |-> registered, panic |-> r.panic, e |-> r.e,
                         err |-> r.err]
        /\ initOk' = (initOk \/ (~r.panic /\ r.err = NoErr))
        /\ hostPc' = IF r.panic THEN "panicked" ELSE hostPc
    /\ hostCalls' = hostCalls + 1
    /\ UNCHANGED <<globalResult, coreVars, hookVars>>

\* Global: panics if globalExporter is nil, returns it otherwise.
Global ==
    /\ hostPc = "running"
    /\ hostCalls < MaxHostCalls
    /\ IF globalExporter.nil
       THEN /\ globalResult' = [call |-> "Global", panic |-> TRUE,
                                e |-> NilExporter, after |-> initOk]
            /\ hostPc' = "panicked"
       ELSE /\ globalResult' = [call |-> "Global", panic |-> FALSE,
                                e |-> globalExporter, after |-> initOk]
            /\ hostPc' = hostPc
    /\ hostCalls' = hostCalls + 1
    /\ UNCHANGED <<globalExporter, registered, newResult, initOk, coreVars,
                   hookVars>>

LifecycleNext ==
    \/ \E reg \in Registries, id \in ProjectIDs : CallNew(reg, [ProjectID |-> id])
    \/ \E reg \in Registries, id \in ProjectIDs : InitGlobal(reg, [ProjectID |-> id])
    \/ Global

LifecycleSpec == Init /\ [][LifecycleNext]_vars

----------------------------------------------------------------------------
(* UpsertValidatingWebhookConfig (pkg/operator/webhook.go).  api is an      *)
(* interface: each of its calls returns an object and a nil error, or no   *)
(* object and an error, as it pleases; an object it returns from Create or *)
(* Update is the one it holds under that name from then on.                *)

\* The errors the calls of api return.
CreateErrors == {NoErr, "AlreadyExists", "Forbidden"}
GetErrors == {NoErr, "NotFound"}
UpdateErrors == {NoErr, "Conflict"}

\* The nil object, the nil error of the function, and the object that the
\* call op of api returns for in when it succeeds.
NilObject == [nil |-> TRUE]
NilError == [msg |-> "nil", cause |-> NoErr]
ApiObject(op, in, err) ==
    IF err = NoErr THEN [nil |-> FALSE, name |-> in.name, by |-> op] ELSE NilObject

\* errors.Wrapf(err, msg).
Wrapf(err, msg) == [msg |-> msg, cause |-> err]

\* return out, err.
Return(out, err) == [call |-> "Upsert", out |-> out, err |-> err]

\* A wrong case: the name of in is not looked at.
AlreadyExistsAnyName(err, in) == err = "AlreadyExists"

\* case k8serrors.IsAlreadyExists(err) && len(in.Name) > 0.
AlreadyExists(err, in) == err = "AlreadyExists" /\ in.name # ""

\* The call of UpsertValidatingWebhookConfig, api.Create and the switch on
\* its error.
UpsertCreate(in, err) ==
    /\ hookPc = "idle"
    /\ upserts < MaxUpserts
    /\ upserts' = upserts + 1
    /\ hookIn' = in
    /\ LET out == ApiObject("Create", in, err) IN
        /\ hookOut' = out
        /\ apiStore' = IF err = NoErr THEN [apiStore EXCEPT ![in.name] = out]
                        ELSE apiStore
        /\ hookCalls' = <<[op |-> "Create", err |-> err, out |-> out]>>
        /\ IF err = NoErr
           THEN hookResult' = Return(out, NilError) /\ hookPc' = "idle"
           ELSE IF AlreadyExists(err, in)
           THEN hookResult' = NoCall /\ hookPc' = "get"
           ELSE /\ hookResult' = Return(NilObject, Wrapf(err, "creating config"))
                /\ hookPc' = "idle"
    /\ UNCHANGED <<coreVars, lifeVars>>

\* api.Get of the existing object; its object is discarded.
UpsertGet(err) ==
    /\ hookPc = "get"
    /\ hookCalls' = Append(hookCalls, [op |-> "Get", err |-> err,
                                        out |-> ApiObject("Get", hookIn, err)])
    /\ IF err # NoErr
       THEN /\ hookResult' = Return(NilObject, Wrapf(err, "getting existing config"))
            /\ hookPc' = "idle"
       ELSE hookResult' = hookResult /\ hookPc' = "update"
    /\ UNCHANGED <<hookIn, hookOut, apiStore, upserts, coreVars, lifeVars>>

\* api.Update with in.
UpsertUpdate(err) ==
    /\ hookPc = "update"
    /\ LET out == ApiObject("Update", hookIn, err) IN
        /\ hookOut' = out
        /\ apiStore' = IF err = NoErr THEN [apiStore EXCEPT ![hookIn.name] = out]
                        ELSE apiStore
        /\ hookCalls' = Append(hookCalls, [op |-> "Update", err |-> err, out |-> out])
        /\ IF err # NoErr
           THEN hookResult' = Return(NilObject, Wrapf(err, "updating existing config"))
           ELSE hookResult' = Return(out, NilError)
    /\ hookPc' = "idle"
    /\ UNCHANGED <<hookIn, upserts, coreVars, lifeVars>>

WebhookNext ==
    \/ \E n \in HookNames, err \in CreateErrors : UpsertCreate([name |-> n], err)
    \/ \E err \in GetErrors : UpsertGet(err)
    \/ \E err \in UpdateErrors : UpsertUpdate(err)

WebhookSpec == Init /\ [][WebhookNext]_vars

TypeOK ==
    /\ nextc \in 0..1
    /\ runPc \in {"init", "select", "walk", "pull", "returned", "failed"}
    /\ timer \in {"none", "armed", "fired", "stopped"}
    /\ \A s \in ShardIds : Len(shards[s].queue) <= shardBufferSize
    /\ i \in 0..shardCount
    /\ shardOffset \in ShardIds

----------------------------------------------------------------------------
(* Definitions used by the properties.                                     *)

\* The send tasks that are dispatched and have not finished.
InFlight == {k \in DOMAIN sends : sends[k].pc # "done"}

\* The hashes of the points of a batch.
BatchHashes(b) == {b[j].hash : j \in DOMAIN b}

\* No two points of a batch have the same hash.
NoDuplicate(b) == \A j1, j2 \in DOMAIN b : b[j1].hash = b[j2].hash => j1 = j2

\* The shards from which the points of a batch were drawn.
BatchShards(b) == {b[j].hash % shardCount : j \in DOMAIN b}

RECURSIVE SumLen(_, _)
\* The sum of the batch sizes of the send tasks of ks.
SumLen(ks, sq) ==
    IF ks = {} THEN 0
    ELSE LET k == CHOOSE x \in ks : TRUE IN Len(sq[k].batch) + SumLen(ks \ {k}, sq)

Min(a, b) == IF a < b THEN a ELSE b
Max(a, b) == IF a > b THEN a ELSE b

RECURSIVE SumOverflow(_)
\* The number of offers beyond the capacity, summed over the shards of ss.
SumOverflow(ss) ==
    IF ss = {} THEN 0
    ELSE LET x == CHOOSE y \in ss : TRUE
         IN Max(0, offers[x] - shardBufferSize) + SumOverflow(ss \ {x})

CallersIdle == \A c \in Callers : callerPc[c] = "idle"

----------------------------------------------------------------------------
(* Properties.                                                             *)

\* C1: per-series order.  For two points of the same hash accepted in the
\* order p1, p2, the CreateTimeSeries call carrying p2 is made only after the
\* call carrying p1 has been made.
PerSeriesOrder ==
    \A a, b \in DOMAIN sends :
        \A ja \in DOMAIN sends[a].batch, jb \in DOMAIN sends[b].batch :
            (/\ sends[a].batch[ja].hash = sends[b].batch[jb].hash
             /\ sends[a].batch[ja].sample < sends[b].batch[jb].sample
             /\ sends[b].pc # "spawned")
            => sends[a].pc # "spawned"

\* C2: for every shard, at most one send task that is in flight holds points
\* drawn from that shard.
OneInFlightPerShard ==
    \A s \in ShardIds :
        Cardinality({k \in InFlight : s \in BatchShards(sends[k].batch)}) <= 1

\* C3: batch uniqueness.  Neither the accumulating batch nor any batch handed
\* to a send task contains two points with the same hash.
BatchUniqueness ==
    /\ NoDuplicate(batch)
    /\ \A k \in DOMAIN sends : NoDuplicate(sends[k].batch)

\* C3 witness: a batch was sent because the next point of the shard had a
\* hash already in it, and that point now opens the fresh batch.
BatchUniquenessWitness ==
    /\ runPc = "pull"
    /\ Len(batch) = 1
    /\ sends # <<>>
    /\ batch[1].hash \in BatchHashes(sends[Len(sends)].batch)
    /\ shard.index = batch[1].hash % shardCount

\* C4: batch cap.  The accumulating batch and every dispatched batch hold at
\* most batchSizeMax points, and between two shards (and at the selector) the
\* accumulating batch is never full: a full batch was sent first.
BatchCap ==
    /\ Len(batch) <= batchSizeMax
    /\ \A k \in DOMAIN sends : Len(sends[k].batch) <= batchSizeMax
    /\ runPc \in {"walk", "select", "returned"} => Len(batch) < batchSizeMax

\* C4 witness: a full batch has just been sent at the end of a visit and the
\* next shard is still to be visited.
BatchCapWitness ==
    /\ runPc = "walk"
    /\ i < shardCount
    /\ batch = <<>>
    /\ sends # <<>>
    /\ Len(sends[Len(sends)].batch) = batchSizeMax

\* C5: pending discipline.  The number of send tasks in flight is at most
\* the number of shards whose pending flag is true.
PendingDiscipline ==
    Cardinality(InFlight) <= Cardinality({s \in ShardIds : shards[s].pending})

\* C6: no missed work.  When the drainer is back at its selector, is not
\* cancelled, and no Export call is under way, queued points imply that a
\* wake signal is buffered (another drain pass follows).
NoMissedWork ==
    (/\ runPc = "select"
     /\ ~cancelled
     /\ sendIterations > 0
     /\ CallersIdle
     /\ \E s \in ShardIds : shards[s].queue # <<>>)
    => nextc = 1

\* C7: shard mapping.  An offer of a point with hash h touches the shard of
\* index h mod shardCount and no other shard.
ShardMapping ==
    [][\A c \in Callers :
        (callerPc[c] = "offer" /\ callerPc'[c] # "offer") =>
            \A s \in ShardIds :
                IF s = hash[c] % shardCount
                THEN /\ offers'[s] = offers[s] + 1
                     /\ \A j \in DOMAIN shards'[s].queue :
                            shards'[s].queue[j].hash % shardCount = s
                ELSE offers'[s] = offers[s] /\ shards'[s] = shards[s]]_vars

\* C7 witness: two different hashes have been offered to the same shard.
ShardMappingWitness ==
    \E s \in ShardIds :
        /\ Len(shards[s].queue) = 2
        /\ shards[s].queue[1].hash # shards[s].queue[2].hash

\* C8: drop iff full.  An offer drops the point exactly when the queue of
\* its shard holds shardBufferSize entries, a drop leaves the queues as they
\* are, no queue ever exceeds its capacity, and before the first drain pass
\* k offers to a shard leave min(k, capacity) entries queued and
\* max(0, k - capacity) dropped.
DropIffFull ==
    /\ [](\A s \in ShardIds : Len(shards[s].queue) <= shardBufferSize)
    /\ [](sendIterations = 0 =>
            /\ \A s \in ShardIds :
                  Len(shards[s].queue) = Min(offers[s], shardBufferSize)
            /\ samplesDropped = SumOverflow(ShardIds))
    /\ [][\A c \in Callers :
            (callerPc[c] = "offer" /\ callerPc'[c] # "offer") =>
                LET q == shards[hash[c] % shardCount].queue IN
                /\ (samplesDropped' = samplesDropped + 1) <=> (Len(q) = shardBufferSize)
                /\ (samplesDropped' = samplesDropped) <=> (Len(q) < shardBufferSize)
                /\ (samplesDropped' # samplesDropped) => (shards' = shards)
                /\ (samplesDropped' = samplesDropped) =>
                       Len(shards'[hash[c] % shardCount].queue) = Len(q) + 1]_vars

\* C8 witness: with the drainer not yet woken, one offer more than the
\* capacity was made to a shard and one point was dropped.
DropIffFullWitness ==
    /\ sendIterations = 0
    /\ samplesDropped = 1
    /\ \E s \in ShardIds :
        offers[s] = shardBufferSize + 1 /\ Len(shards[s].queue) = shardBufferSize

\* C9: counter accounting.  samplesExported counts every attempt: it equals
\* the drops plus the accepted points plus the attempts that are counted but
\* not yet offered, hence drops plus accepted once no attempt is under way.
CounterAccounting ==
    /\ samplesExported = samplesDropped + accepted
                         + Cardinality({c \in Callers : callerPc[c] = "offer"})
    /\ (\A c \in Callers : callerPc[c] # "offer")
         => samplesExported = samplesDropped + accepted

\* C9 witness: both callers have made attempts concurrently, one point was
\* dropped and others were accepted, and no attempt is under way.
CounterAccountingWitness ==
    /\ CallersIdle
    /\ exportCalls = MaxExports
    /\ samplesDropped >= 1
    /\ accepted >= 2

\* C10: samplesSent counts attempts.  It is the sum of the batch sizes of
\* the finished send tasks, failed or not, hence of all dispatched sends
\* once they have all finished, and it never exceeds the accepted points.
SentCountsAttempts ==
    /\ samplesSent = SumLen({k \in DOMAIN sends : sends[k].pc = "done"}, sends)
    /\ InFlight = {} => samplesSent = SumLen(DOMAIN sends, sends)
    /\ samplesSent <= accepted

\* C10 witness: all sends have finished, one of them failed, and its batch
\* is counted.
SentCountsAttemptsWitness ==
    /\ InFlight = {}
    /\ Len(sends) >= 2
    /\ \E k \in DOMAIN sends : sends[k].err
    /\ samplesSent = SumLen(DOMAIN sends, sends)

\* The number of Export calls that have returned.
ExportsDone == exportCalls - Cardinality({c \in Callers : callerPc[c] # "idle"})

\* Run is in its event loop.
InLoop == runPc \in {"select", "walk", "pull"}

\* The step is the timer case of the selector.
TimerCase == runPc = "select" /\ runPc' = "select" /\ timer = "fired" /\ timer' # "fired"

\* C11: cancellation stops sending.  Once the context is cancelled no send
\* task is started any more.
NoSendAfterCancel == [][cancelled => Len(sends') = Len(sends)]_vars

\* C12: Run terminates on cancellation.  A Run that is in its event loop
\* when the context is cancelled eventually returns nil; it returns only on
\* cancellation, and returning changes neither the send tasks in flight, nor
\* the shard queues, nor the accumulating batch, nor samplesSent.
RunTerminates ==
    /\ (cancelled /\ InLoop) ~> (runPc = "returned")
    /\ [][(runPc # "returned" /\ runPc' = "returned") =>
            /\ cancelled
            /\ sends' = sends /\ shards' = shards /\ batch' = batch
            /\ samplesSent' = samplesSent]_vars

\* C12 witness: Run has returned while a send is in flight, a point is in
\* the accumulating batch and a point is in a shard queue.
RunTerminatesWitness ==
    /\ runPc = "returned"
    /\ InFlight # {}
    /\ batch # <<>>
    /\ \E s \in ShardIds : shards[s].queue # <<>>

\* C13: wake coalescing.  The wake channel holds at most one signal; every
\* drain pass consumes one signal, and passes and buffered signal together
\* never outnumber the triggerNext calls made, while one such call is enough
\* for a pass or a buffered signal.
WakeCoalescing ==
    /\ [](/\ nextc \in 0..1
          /\ sendIterations + nextc <= ExportsDone
          /\ ExportsDone >= 1 => sendIterations + nextc >= 1)
    /\ [][sendIterations' # sendIterations =>
            /\ sendIterations' = sendIterations + 1
            /\ nextc = 1 /\ nextc' = 0]_vars

\* C13 witness: two triggerNext calls were made before the drainer took the
\* signal, and one drain pass resulted.
WakeCoalescingWitness ==
    /\ CallersIdle
    /\ exportCalls = 2
    /\ runPc = "select"
    /\ sendIterations = 1
    /\ nextc = 0

\* C14: Export never blocks.  Every call of Export ends, by returning or, on
\* a builder error, by panicking, whatever the drainer, the timer and the
\* backend do.
ExportNeverBlocks ==
    \A c \in Callers :
        (callerPc[c] # "idle") ~> (callerPc[c] \in {"idle", "panicked"})

\* C14 witness: with Run not running, two Export calls have returned although
\* a point found its queue full and the wake channel held a signal already.
ExportNeverBlocksWitness ==
    /\ CallersIdle
    /\ exportCalls = 2
    /\ runPc = "init"
    /\ samplesDropped >= 1
    /\ nextc = 1

\* C15: timer with empty batch.  The timer case with an empty batch starts
\* no send, changes no counter, and rearms the timer.
TimerEmptyBatch ==
    [][(TimerCase /\ batch = <<>>) =>
        /\ timer' = "armed"
        /\ sends' = sends
        /\ batch' = <<>>
        /\ UNCHANGED counters]_vars

\* C15 witness: the timer has fired while the drainer sits at its selector
\* with an empty batch, after a drain pass.
TimerEmptyBatchWitness ==
    /\ runPc = "select"
    /\ timer = "fired"
    /\ batch = <<>>
    /\ sendIterations >= 1

\* C16: timer flush of a partial batch.  A non-empty accumulating batch is
\* eventually sent unless the context is cancelled; the timer case sends it
\* in one task holding exactly the accumulated points and rearms the timer;
\* a step of a drain pass that starts no send leaves the timer alone; and no
\* send is ever started without accumulated points, the points sent or
\* accumulated never outnumbering the points accepted from Export.
TimerFlush ==
    /\ (batch # <<>>) ~> (batch = <<>> \/ cancelled)
    /\ [](SumLen(DOMAIN sends, sends) + Len(batch) <= accepted)
    /\ [][(TimerCase /\ batch # <<>>) =>
            /\ Len(sends') = Len(sends) + 1
            /\ sends'[Len(sends')].batch = batch
            /\ sends'[Len(sends')].pc = "spawned"
            /\ batch' = <<>>
            /\ timer' = "armed"]_vars
    /\ [][((runPc \in {"walk", "pull"} \/ runPc' = "walk")
            /\ runVars' # runVars /\ sends' = sends) => timer' = timer]_vars
    /\ [][Len(sends') > Len(sends) =>
            /\ batch # <<>>
            /\ sends'[Len(sends')].batch = batch]_vars

\* C16 witness: the only point ever accepted went out alone in a batch (the
\* cap is not reached and no duplicate arrived, so the timer sent it), and
\* the drainer is back at its selector with the timer rearmed.
TimerFlushWitness ==
    /\ runPc = "select"
    /\ accepted = 1
    /\ Len(sends) = 1
    /\ Len(sends[1].batch) = 1
    /\ batch = <<>>
    /\ timer = "armed"

\* C17: offset rotation.  After a pass in which the batch filled at shard k
\* while entries were left queued there, the wake signal is buffered again
\* and the next pass starts at shard k.
OffsetRotation ==
    (runPc = "select" /\ capped # NoCap) => (nextc = 1 /\ shardOffset = capped)

\* C18: release regardless of outcome.  When a send task has finished, with
\* or without an error, every flag its closers captured is false and so is
\* the pending flag of every shard they stand for; the end of a send task
\* leaves the drainer where it is and starts no other task, and a finished
\* task never calls the backend again.
ReleaseRegardless ==
    /\ [](\A k \in DOMAIN sends : sends[k].pc = "done" =>
            \A j \in DOMAIN sends[k].closers :
                /\ ~sends[k].closers[j].pending
                /\ ~shards[sends[k].closers[j].index].pending)
    /\ [][\A k \in DOMAIN sends :
            /\ (sends[k].pc # "done" /\ sends'[k].pc = "done") =>
                    (runPc' = runPc /\ Len(sends') = Len(sends))
            /\ sends[k].pc = "done" => sends'[k] = sends[k]
            /\ sends[k].pc = "called" => sends'[k].pc # "spawned"]_vars

\* C18 witness: a send task whose call failed has finished, its closers have
\* run, and the drainer is still in its loop.
ReleaseRegardlessWitness ==
    /\ InLoop
    /\ ~cancelled
    /\ \E k \in DOMAIN sends :
        /\ sends[k].pc = "done"
        /\ sends[k].err
        /\ sends[k].closers # <<>>

\* C19: bounded fan-out.  At most shardCount send tasks are in flight.
BoundedFanOut == Cardinality(InFlight) <= shardCount

\* C20: seen/batch consistency.  Between two steps of the drainer seen is
\* the set of the hashes of the accumulating batch and an empty batch has an
\* empty release list; a send empties the release list and leaves in batch
\* and seen at most the point that caused it.
SeenBatchConsistency ==
    /\ [](seen = BatchHashes(batch) /\ (batch = <<>> => closers = <<>>))
    /\ [][Len(sends') > Len(sends) =>
            /\ closers' = <<>>
            /\ Len(batch') <= 1
            /\ seen' = BatchHashes(batch')]_vars

\* C20 witness: a duplicate has just made the drainer send the batch; the
\* point that caused it is alone in batch and seen, the release list is
\* empty.
SeenBatchConsistencyWitness ==
    /\ runPc = "pull"
    /\ sends # <<>>
    /\ Len(batch) = 1
    /\ seen = {batch[1].hash}
    /\ closers = <<>>
    /\ batch[1].hash \in BatchHashes(sends[Len(sends)].batch)

\* The number of enqueue attempts made on the shards of ss.
RECURSIVE SumOffers(_)
SumOffers(ss) ==
    IF ss = {} THEN 0
    ELSE LET x == CHOOSE y \in ss : TRUE IN offers[x] + SumOffers(ss \ {x})

\* The places where the accepted point n is: in a shard queue, in the
\* accumulating batch, in the batch of a send task.
Places(n) ==
    {<<"queue", x, j>> : x \in {y \in ShardIds \X (1..shardBufferSize) :
        y[2] <= Len(shards[y[1]].queue) /\ shards[y[1]].queue[y[2]].sample = n},
        j \in {0}}
    \cup {<<"batch", 0, j>> : j \in {k \in DOMAIN batch : batch[k].sample = n}}
    \cup UNION {{<<"send", k, j>> : j \in {m \in DOMAIN sends[k].batch :
                    sends[k].batch[m].sample = n}} : k \in DOMAIN sends}

\* The visit numbers of the copies whose release callbacks are in cl.
Visits(cl) == {cl[j].visit : j \in DOMAIN cl}

\* A step of the task of Run.
DrainerStep == runVars' # runVars

\* A step that writes a pending flag held in the release list of a send task.
ReleaseWrites(k) ==
    \E j \in DOMAIN sends[k].closers :
        sends'[k].closers[j].pending # sends[k].closers[j].pending

\* The last call of New or InitGlobal returned what New returns for a missing
\* project ID: an error and no exporter.
ReturnedMissing ==
    /\ ~newResult.panic
    /\ newResult.e.nil
    /\ newResult.err # NoErr
    /\ newResult.call = "InitGlobal" => globalExporter.nil

\* The last call of New or InitGlobal returned a fresh exporter.
ReturnedExporter ==
    /\ ~newResult.panic
    /\ newResult.err = NoErr
    /\ ~newResult.e.nil
    /\ DOMAIN newResult.e.shards = ShardIds
    /\ Cardinality(DOMAIN newResult.e.shards) = shardCount
    /\ \A x \in ShardIds : /\ newResult.e.shards[x].queue = <<>>
                           /\ ~newResult.e.shards[x].pending
    /\ newResult.e.nextc = 0
    /\ newResult.call = "InitGlobal" => globalExporter = newResult.e

\* C21 as stated: New with an empty ProjectID returns an error and no
\* exporter and InitGlobal reports that error; with a non-empty ProjectID it
\* returns an exporter with shardCount empty shards that are not pending and
\* an empty wake channel.
NewChecksProjectID ==
    newResult.call # "none" =>
        IF newResult.opts.ProjectID = "" THEN ReturnedMissing ELSE ReturnedExporter

\* C21 amended: the same, for the calls whose registry is nil or does not hold
\* the six counters yet; the other calls panic, whatever the ProjectID, and
\* a call that returns, with or without an error, leaves the counters
\* registered in a registry that is not nil.
NewRegistersThenChecksProjectID ==
    newResult.call # "none" =>
        /\ newResult.panic <=> (newResult.reg # "nil" /\ newResult.was)
        /\ ~newResult.panic =>
            /\ IF newResult.opts.ProjectID = ""
               THEN ReturnedMissing ELSE ReturnedExporter
            /\ newResult.reg # "nil" => registered

\* C21 witness: InitGlobal was called with an empty ProjectID and the
\* registry of the host and reported the error; the counters are registered.
NewRegistersThenChecksProjectIDWitness ==
    /\ newResult.call = "InitGlobal"
    /\ newResult.opts.ProjectID = ""
    /\ newResult.reg # "nil"
    /\ newResult.err # NoErr
    /\ globalExporter.nil
    /\ registered

\* C22: global exporter lifecycle.  Global panics when no InitGlobal has
\* succeeded before, and once an InitGlobal has succeeded Global returns an
\* exporter that is not nil and does not panic.
GlobalLifecycle ==
    globalResult.call # "none" =>
        /\ ~globalResult.after => globalResult.panic
        /\ globalResult.after => (~globalResult.panic /\ ~globalResult.e.nil)

\* The calls the last UpsertValidatingWebhookConfig made on api.
HookOps == [j \in DOMAIN hookCalls |-> hookCalls[j].op]

\* The last UpsertValidatingWebhookConfig returned an error and no object.
HookFailed == hookResult.out.nil /\ hookResult.err # NilError

\* The last UpsertValidatingWebhookConfig returned the object of its call j.
HookReturned(j) == hookResult.out = hookCalls[j].out /\ ~hookResult.out.nil
                   /\ hookResult.err = NilError

\* C23: UpsertValidatingWebhookConfig creates or updates.  Create is called
\* first; if it succeeds its object is returned and nothing else is called;
\* if it fails with AlreadyExists and the name is not empty, Get is called,
\* and then, unless Get failed, Update, whose object is returned unless it
\* failed; a failure of Get or Update and any other failure of Create make
\* the function return an error without a further call.
UpsertCreatesOrUpdates ==
    /\ hookPc = "get" => HookOps = <<"Create">>
    /\ hookPc = "update" => HookOps = <<"Create", "Get">>
    /\ (hookPc = "idle" /\ hookResult.call # "none") =>
        LET ce == hookCalls[1].err IN
        /\ hookCalls[1].op = "Create"
        /\ ce = NoErr => (HookOps = <<"Create">> /\ HookReturned(1))
        /\ (ce = "AlreadyExists" /\ hookIn.name # "") =>
            /\ Len(hookCalls) >= 2
            /\ hookCalls[2].op = "Get"
            /\ IF hookCalls[2].err # NoErr
               THEN HookOps = <<"Create", "Get">> /\ HookFailed
               ELSE /\ HookOps = <<"Create", "Get", "Update">>
                    /\ IF hookCalls[3].err = NoErr
                       THEN HookReturned(3) /\ apiStore[hookIn.name] = hookResult.out
                       ELSE HookFailed
        /\ (ce # NoErr /\ ~(ce = "AlreadyExists" /\ hookIn.name # "")) =>
            (HookOps = <<"Create">> /\ HookFailed)

\* C23 witness: a call found the object existing, got it and updated it.
UpsertCreatesOrUpdatesWitness ==
    /\ hookPc = "idle"
    /\ HookOps = <<"Create", "Get", "Update">>
    /\ hookResult.err = NilError
    /\ hookResult.out.by = "Update"

\* C24: pending is set whenever a shard contributed.  Between two visits,
\* every shard that has a point in the accumulating batch is pending, and a
\* release callback for it is in the release list of that batch.
PendingSetWhenContributed ==
    runPc \in {"select", "walk"} =>
        \A j \in DOMAIN batch :
            /\ shards[ShardIndex(batch[j].hash)].pending
            /\ \E k \in DOMAIN closers :
                closers[k].index = ShardIndex(batch[j].hash)

\* C25: flush on duplicate.  A pull of a point whose hash is in seen sends
\* the accumulated batch as it is and starts the fresh batch with that point;
\* any other pull appends the point and sends nothing.  Points of one series
\* never share a send, and they are dispatched in the order in which they
\* were accepted.
FlushOnDuplicate ==
    /\ [][(runPc = "pull" /\ runPc' = "pull"
            /\ Len(shards'[shard.index].queue) < Len(shards[shard.index].queue)) =>
            LET e == Head(shards[shard.index].queue) IN
            IF e.hash \in seen
            THEN /\ Len(sends') = Len(sends) + 1
                 /\ sends'[Len(sends')].batch = batch
                 /\ batch' = <<e>>
            ELSE /\ sends' = sends
                 /\ batch' = Append(batch, e)]_vars
    /\ [](\A j, k \in DOMAIN sends :
            \A a \in DOMAIN sends[j].batch, b \in DOMAIN sends[k].batch :
                (/\ sends[j].batch[a].hash = sends[k].batch[b].hash
                 /\ sends[j].batch[a].sample < sends[k].batch[b].sample) => j < k)
    /\ [](\A j \in DOMAIN sends : \A a \in DOMAIN sends[j].batch, b \in DOMAIN batch :
            sends[j].batch[a].hash = batch[b].hash =>
                sends[j].batch[a].sample < batch[b].sample)

\* C25 witness: one drain pass met two points of one series; the first went
\* out alone, the second is alone in the fresh batch, which is not sent yet.
FlushOnDuplicateWitness ==
    /\ sendIterations = 1
    /\ Len(sends) = 1
    /\ Len(sends[1].batch) = 1
    /\ Len(batch) = 1
    /\ batch[1].hash = sends[1].batch[1].hash
    /\ sends[1].batch[1].sample < batch[1].sample

\* C26: exclusive ownership.  Every accepted point is in exactly one place,
\* a shard queue, the accumulating batch or the batch of one send task, and
\* the batch of a send task never changes.
ExclusiveOwnership ==
    /\ [](\A n \in 1..accepted : Cardinality(Places(n)) = 1)
    /\ [][\A k \in DOMAIN sends : sends'[k].batch = sends[k].batch]_vars

\* C26 witness: the three accepted points are in the three kinds of places,
\* one in a queue, one in the accumulating batch and one with a send task
\* that is calling the backend.
ExclusiveOwnershipWitness ==
    /\ accepted = 3
    /\ \E x \in ShardIds : Len(shards[x].queue) = 1
    /\ Len(batch) = 1
    /\ Len(sends) = 1
    /\ sends[1].pc = "called"
    /\ Len(sends[1].batch) = 1

SignalAfterEnqueue ==
    /\ [](samplesExported = SumOffers(ShardIds)
            + Cardinality({c \in Callers : callerPc[c] = "offer"}))
    /\ [][\A c \in Callers :
            /\ (callerPc[c] # "idle" /\ callerPc'[c] = "idle") =>
                (callerPc[c] = "loop" /\ samples[c] = 0 /\ nextc' = 1
                 /\ shards' = shards)
            /\ (callerPc[c] # "panicked" /\ callerPc'[c] = "panicked") =>
                (nextc' = nextc /\ shards' = shards /\ UNCHANGED counters)
            /\ callerPc[c] = "panicked" => callerPc'[c] = "panicked"]_vars
    /\ [][nextc' > nextc =>
            \E c \in Callers : callerPc[c] = "loop" /\ callerPc'[c] = "idle"]_vars

\* C28 witness: of two calls one has returned and left its signal and one has
\* panicked; the one point that was emitted is still queued and no drain
\* pass has begun.
SignalAfterEnqueueWitness ==
    /\ exportCalls = 2
    /\ \E c \in Callers : callerPc[c] = "panicked"
    /\ \E c \in Callers : callerPc[c] = "idle"
    /\ samplesExported = 1
    /\ accepted = 1
    /\ \E x \in ShardIds : Len(shards[x].queue) = 1
    /\ nextc = 1
    /\ sendIterations = 0

====
